---------------------------- MODULE Spec2Model ----------------------------
(***************************************************************************)
(* A model of spAIk_audio_ai: the asynchronous analysis server (Aapp.py    *)
(* with audiomain.amain), the synchronous upload servers (app.py and       *)
(* run_all.py) and the pure helpers they call.                             *)
(*                                                                         *)
(* One process runs one entry point; `app` says which.  Everything a       *)
(* library or the network decides (a download, ffmpeg, librosa, a POST)    *)
(* is a nondeterministic outcome drawn from a small set.                   *)
(***************************************************************************)
EXTENDS Integers, Sequences, FiniteSets, TLC

VARIABLES
    app,                  \* the entry point this process runs
    analysis_status_map,  \* Aapp.py: job id -> status ("NONE": no entry)
    worker,               \* Aapp.py: one process_audio thread per job id
    files,                \* the file system: the files that exist
    sent,                 \* every callback POST issued, with the status then in the map
    last_response,        \* the last HTTP response an endpoint returned
    upload,               \* app.py / run_all.py: one upload request per id
    now,                  \* int(time.time())
    call                  \* a direct call of a pure helper: its input and result

vars == <<app, analysis_status_map, worker, files, sent, last_response, upload, now, call>>

---------------------------------------------------------------------------
(* Bounds of the model *)

MaxJobs == 1          \* async requests accepted in one run, one after the other
MaxThreads == 2       \* async requests accepted in one run, their workers concurrent
MaxUploads == 1       \* upload requests received in one run
MaxTime == 1          \* the clock runs 0..MaxTime seconds
MaxFrames == 4        \* longest energy sequence given to detect_stuttering

JobIds == 1..(IF MaxJobs > MaxThreads THEN MaxJobs ELSE MaxThreads)
UploadIds == 1..MaxUploads

---------------------------------------------------------------------------
(* Program constants *)

retries == 3            \* notify_status(callback_url, payload, retries=3)
max_retries == 5        \* generate_feedback_no_question: max_retries = 5
message_limit == 4000   \* f"{str(e)}\n\n{err_trace}"[:4000]
floor_db == -12000      \* -120.0 dB, in hundredths of a dB
threshold == 10         \* detect_stuttering(threshold=0.01), in thousandths

---------------------------------------------------------------------------
(* Values *)

None == "None"

Min(a, b) == IF a <= b THEN a ELSE b

\* JSON values a client may give for presentationId and s3Url; None: key absent
PresentationIds == {None, "", "pres", "../pres"}
S3Urls == {None, "", "https://s3/video.mp4"}

\* Python truthiness of the values above: None and "" are falsy
truthy(v) == v \notin {None, ""}

\* The bodies request.get_json() can return: a JSON object, or any other JSON
\* value (a list, a string, a number, null), which has no .get
Bodies ==
    [kind : {"object"}, presentationId : PresentationIds, s3Url : S3Urls]
    \cup {[kind |-> "other", presentationId |-> None, s3Url |-> None]}

\* Directories
TmpRoot == [kind |-> "tmp", id |-> 0]
DlDir(j) == [kind |-> "dl_", id |-> j]
AudioDir(j) == [kind |-> "audio_", id |-> j]
UPLOAD_FOLDER == [kind |-> "uploads", id |-> 0]
TEMP_AUDIO_FOLDER == [kind |-> "temp_audio", id |-> 0]
Cwd == [kind |-> "cwd", id |-> 0]

\* tempfile.TemporaryDirectory() creates its directory under the temp root;
\* the upload folders are relative to the working directory
Parent(dir) == IF dir.kind \in {"dl_", "audio_"} THEN TmpRoot ELSE Cwd

\* The path components of a name: ".." steps and the final component
UpSteps(name) == IF name = "../pres" THEN 1 ELSE 0
BaseName(name) == IF name = "../pres" THEN "pres" ELSE name

\* os.path.join(dir, f"{name}{suffix}{ext}"), as the file system resolves it:
\* a leading ".." component leaves dir
path_join(dir, name, suffix, ext) ==
    [dir |-> IF UpSteps(name) > 0 THEN Parent(dir) ELSE dir,
     base |-> BaseName(name), suffix |-> suffix, ext |-> ext]

\* One file: where it is and which job or request wrote it
File(path, owner) == [path |-> path, owner |-> owner]

exists(path) == \E f \in files : f.path = path

\* Writing a path replaces what was there
write(fs, path, owner) == {f \in fs : f.path # path} \cup {File(path, owner)}

\* os.remove(path) guarded by os.path.exists(path)
remove(fs, path) == {f \in fs : f.path # path}

\* A TemporaryDirectory whose exit removes nothing
rmtree_keeps(fs, dir) == fs

\* TemporaryDirectory.__exit__: the directory and everything in it
rmtree(fs, dir) == {f \in fs : f.path.dir # dir}


---------------------------------------------------------------------------
(* Numbers.  An RMS amplitude is an integer number of thousandths, a level *)
(* in dB an integer number of hundredths of a dB.  A Python value that may *)
(* be a number, None or the string 'N/A' carries a tag.                    *)

Num(n) == [tag |-> "num", v |-> n]
NoneValue == [tag |-> "None", v |-> 0]
NA == [tag |-> "N/A", v |-> 0]
ValueError == [tag |-> "ValueError", v |-> 0]

\* The amplitudes the model draws: negative, zero and powers of ten
RmsValues == {-1000, -1, 0, 1, 10, 100, 1000, 10000}

\* math.log10 of x thousandths, for x a positive power of ten
RECURSIVE log10_pow(_)
log10_pow(x) ==
    IF x = 1000 THEN 0
    ELSE IF x > 1000 THEN 1 + log10_pow(x \div 10)
    ELSE log10_pow(x * 10) - 1

\* math.log10(x): a ValueError (math domain error) for x <= 0
log10(x) == IF x <= 0 THEN ValueError ELSE Num(log10_pow(x))

\* 20 * math.log10(x), in hundredths of a dB
twenty_log10(x) ==
    IF log10(x).tag = "num" THEN Num(20 * 100 * log10(x).v) ELSE log10(x)

\* A convert_rms_to_db whose test is < 0
convert_rms_to_db_lt(rms_value) ==
    IF rms_value < 0 THEN Num(floor_db) ELSE twenty_log10(rms_value)

\* audiomain.py
convert_rms_to_db(rms_value) ==
    IF rms_value <= 0 THEN Num(floor_db) ELSE twenty_log10(rms_value)

\* app.py
app_convert_rms_to_db(rms_value) ==
    IF rms_value <= 0 THEN Num(floor_db) ELSE twenty_log10(rms_value)

\* run_all.py
run_all_convert_rms_to_db(rms_value) ==
    IF rms_value <= 0 THEN Num(floor_db) ELSE twenty_log10(rms_value)

\* main.py
main_convert_rms_to_db(rms_value) ==
    IF rms_value <= 0 THEN Num(floor_db) ELSE twenty_log10(rms_value)

\* except (ValueError, TypeError): avg_rms_db = 'N/A'
except_value_error(db) == IF db.tag = "ValueError" THEN NA ELSE db

\* amain's computation of avg_rms_db from features.get('avg_rms')
amain_avg_rms_db(avg_rms_value) ==
    IF avg_rms_value.tag = "None" THEN NA
    ELSE IF avg_rms_value.v > 0
    THEN except_value_error(convert_rms_to_db(avg_rms_value.v))
    ELSE Num(floor_db)

\* app.py's analyze_video_api: the same guard
app_avg_rms_db(avg_rms_value) ==
    IF avg_rms_value.tag = "None" THEN NA
    ELSE IF avg_rms_value.v > 0
    THEN except_value_error(app_convert_rms_to_db(avg_rms_value.v))
    ELSE Num(floor_db)

\* run_all.py's process_video_for_feedback: no guard of its own
run_all_avg_rms_db(avg_rms_value) ==
    IF avg_rms_value.tag = "None" THEN NA
    ELSE except_value_error(run_all_convert_rms_to_db(avg_rms_value.v))

\* main.py's main: the guard of amain
main_avg_rms_db(avg_rms_value) ==
    IF avg_rms_value.tag = "None" THEN NA
    ELSE IF avg_rms_value.v > 0
    THEN except_value_error(main_convert_rms_to_db(avg_rms_value.v))
    ELSE Num(floor_db)

\* A speaking rate is an integer number of thousandths of a word per minute,
\* a pitch an integer number of thousandths of a Hz
SpeedValues == {0, 109999, 110000, 110001, 150000, 160000, 160001}
PitchValues == {0, 1, 99999, 100000, 180000, 250000, 250001}
DbValues == {Num(-12000), Num(-2001), Num(-2000), Num(-1000), Num(-999), NA}

\* features.get(key, 0.0): the value, or 0.0 when the key is absent
features_get(value) == IF value.tag = "num" THEN value.v ELSE 0

\* A speed test that takes 110 wpm for slow
speed_feedback_le(speaking_rate_wpm) ==
    IF speaking_rate_wpm <= 110000 THEN "slow"
    ELSE IF speaking_rate_wpm > 160000 THEN "fast"
    ELSE "adequate"

\* generate_audio_feedback, lines 25-30
speed_feedback(speaking_rate_wpm) ==
    IF speaking_rate_wpm < 110000 THEN "slow"
    ELSE IF speaking_rate_wpm > 160000 THEN "fast"
    ELSE "adequate"

\* A pitch test that takes 250 Hz for high
pitch_feedback_ge(avg_pitch_hz) ==
    IF avg_pitch_hz = 0 THEN "pitch analysis unavailable"
    ELSE IF avg_pitch_hz < 100000 THEN "low voice"
    ELSE IF avg_pitch_hz >= 250000 THEN "high voice"
    ELSE "stable tone"

\* generate_audio_feedback, lines 36-43
pitch_feedback(avg_pitch_hz) ==
    IF avg_pitch_hz = 0 THEN "pitch analysis unavailable"
    ELSE IF avg_pitch_hz < 100000 THEN "low voice"
    ELSE IF avg_pitch_hz > 250000 THEN "high voice"
    ELSE "stable tone"

\* A volume test that takes -20 dB for too quiet
volume_feedback_le(avg_rms_db) ==
    IF avg_rms_db.tag # "num" THEN "unavailable"
    ELSE IF avg_rms_db.v <= -2000 THEN "too quiet"
    ELSE IF avg_rms_db.v > -1000 THEN "loud"
    ELSE "adequate"

\* generate_audio_feedback, lines 48-58
volume_feedback(avg_rms_db) ==
    IF avg_rms_db.tag # "num" THEN "unavailable"
    ELSE IF avg_rms_db.v < -2000 THEN "too quiet"
    ELSE IF avg_rms_db.v > -1000 THEN "loud"
    ELSE "adequate"

\* The features of analyze_audio_features that generate_audio_feedback reads
Features(speaking_rate_wpm, avg_pitch_hz, avg_rms) ==
    [speaking_rate_wpm |-> speaking_rate_wpm, avg_pitch_hz |-> avg_pitch_hz,
     avg_rms |-> avg_rms]

\* The features of a pipeline run: only avg_rms varies
PipelineFeatures(avg_rms) == Features(Num(150000), Num(180000), avg_rms)

generate_audio_feedback(features, avg_rms_db) ==
    [speed_feedback |-> speed_feedback(features_get(features.speaking_rate_wpm)),
     speaking_rate_wpm |-> features_get(features.speaking_rate_wpm),
     pitch_feedback |-> pitch_feedback(features_get(features.avg_pitch_hz)),
     avg_pitch_hz |-> features_get(features.avg_pitch_hz),
     volume_feedback |-> volume_feedback(avg_rms_db),
     avg_rms_db |-> IF avg_rms_db.tag = "num" THEN avg_rms_db.v ELSE 0]

---------------------------------------------------------------------------
(* The speaking rate.  A text is a sequence of characters, "w" for any     *)
(* character of a word and " " for any whitespace.                         *)

\* n words with one space between them
Words(n) == [i \in 1..(2 * n - 1) |-> IF i % 2 = 1 THEN "w" ELSE " "]

Texts == {<<>>, <<" ">>, <<"w", "w">>, <<" ", "w", " ", " ", "w", "w", " ">>,
          Words(109), Words(150), Words(161)}

\* What the ASR and librosa report for the length of the audio, in tenths
\* of a second
AsrDurations == {0, 300, 600}
FileDurations == {0, 600, 1200}

\* len(asr_text.strip().split()): the pieces between runs of whitespace,
\* none of them empty.  The words of text[lo..hi] are those of its two
\* halves, less one when a word runs across the middle.
RECURSIVE split_count(_, _, _)
split_count(text, lo, hi) ==
    IF lo > hi THEN 0
    ELSE IF lo = hi THEN (IF text[lo] = " " THEN 0 ELSE 1)
    ELSE LET mid == (lo + hi) \div 2
         IN  split_count(text, lo, mid) + split_count(text, mid + 1, hi)
               - (IF text[mid] # " " /\ text[mid + 1] # " " THEN 1 ELSE 0)

word_count(asr_text) == split_count(asr_text, 1, Len(asr_text))

\* calculate_speaking_rate: words per minute, in thousandths
calculate_speaking_rate(asr_text, duration_sec) ==
    IF duration_sec <= 0 THEN 0
    ELSE (word_count(asr_text) * 1000 * 600) \div duration_sec

\* An effective duration that is always the file's
effective_duration_file(asr_duration, duration) == duration

\* analyze_audio_features, line 23
effective_duration(asr_duration, duration) ==
    IF asr_duration > 0 THEN asr_duration ELSE duration

\* analyze_audio_features, lines 17-26 and 39: the speaking rate it reports
speaking_rate_wpm(transcript, asr_duration, duration) ==
    calculate_speaking_rate(transcript, effective_duration(asr_duration, duration))

---------------------------------------------------------------------------
(* answer_feedback/ai_feedback.py: generate_feedback_no_question           *)

\* What one call of model.generate_content can do: return a response with a
\* text, or raise
ApiAnswers == {"text", "ResourceExhausted", "GoogleAPIError", "Exception"}

\* The answers the API would give to max_retries successive calls
ApiAnswerSeqs == [1..max_retries -> ApiAnswers]

\* A test that also retries the other API errors
is_retried_api_error(answer) == answer \in {"ResourceExhausted", "GoogleAPIError"}

\* except ResourceExhausted: the one exception that is retried
is_retried(answer) == answer = "ResourceExhausted"

\* wait_time = 2 ** attempt
wait_time(attempt) == 2 ^ attempt

\* for attempt in range(max_retries), from turn attempt on: the value
\* returned, the calls made and the waits slept
RECURSIVE generate_content_loop(_, _, _, _)
generate_content_loop(answers, attempt, calls, waits) ==
    IF attempt >= max_retries
    THEN [ret |-> "empty text", calls |-> calls, waits |-> waits]
    ELSE IF answers[attempt + 1] = "text"
    THEN [ret |-> "text", calls |-> calls + 1, waits |-> waits]
    ELSE IF is_retried(answers[attempt + 1])
    THEN IF attempt = max_retries - 1
         THEN [ret |-> None, calls |-> calls + 1,
               waits |-> Append(waits, wait_time(attempt))]
         ELSE generate_content_loop(answers, attempt + 1, calls + 1,
                                    Append(waits, wait_time(attempt)))
    ELSE [ret |-> None, calls |-> calls + 1, waits |-> waits]

generate_feedback_no_question(answers) == generate_content_loop(answers, 0, 0, <<>>)

---------------------------------------------------------------------------
(* detect_stuttering on the energy sequence librosa.feature.rms returns,   *)
(* each energy in thousandths                                              *)

EnergyValues == {5, 10, 20}

RECURSIVE SeqsUpTo(_, _)
SeqsUpTo(S, n) ==
    IF n = 0 THEN {<<>>}
    ELSE LET shorter == SeqsUpTo(S, n - 1)
         IN  shorter \cup {Append(s, x) : s \in {t \in shorter : Len(t) = n - 1}, x \in S}

EnergySeqs == SeqsUpTo(EnergyValues, MaxFrames)

\* stutter_frames = energy < threshold
stutter_frames(energy) == [i \in 1..Len(energy) |-> energy[i] < threshold]

\* for i in range(1, len(stutter_frames)): frame k of the code is frames[k + 1]
RECURSIVE count_loop(_, _, _)
count_loop(frames, i, count) ==
    IF i >= Len(frames) THEN count
    ELSE count_loop(frames, i + 1,
                    IF frames[i + 1] /\ ~frames[i] THEN count + 1 ELSE count)

\* A count that also takes a run of stutter frames at frame 0
stutter_count_from0(energy) ==
    LET frames == stutter_frames(energy)
    IN  count_loop(frames, 1, IF Len(frames) > 0 /\ frames[1] THEN 1 ELSE 0)

stutter_count(energy) == count_loop(stutter_frames(energy), 1, 0)

detect_stuttering(energy) == [stutter_count |-> stutter_count(energy)]

\* A duration is an integer number of tenths of a second; a number of minutes
\* and a rate per minute are integers in thousandths, a rate per second an
\* integer in hundred-thousandths
StutterCounts == {0, 1, 2, 4}
DurationValues == {-10, 0, 59, 60, 300, 600, 1200, 1201, 2400}

\* total_duration_seconds / 60, in thousandths of a minute
total_duration_minutes(total_duration_seconds) ==
    (total_duration_seconds * 1000) \div 600

\* stuttering_counts / total_duration_minutes, in thousandths per minute
stuttering_per_minute(stuttering_counts, total_duration_seconds) ==
    (stuttering_counts * 1000 * 1000)
        \div total_duration_minutes(total_duration_seconds)

\* A get_stuttering_feedback whose first band takes 0.5 per minute
get_stuttering_feedback_le(stuttering_counts, total_duration_seconds) ==
    IF total_duration_seconds <= 0 THEN "too short to evaluate"
    ELSE IF total_duration_minutes(total_duration_seconds) < 100
    THEN "too short to evaluate per minute"
    ELSE IF stuttering_counts = 0 THEN "no stuttering"
    ELSE IF stuttering_per_minute(stuttering_counts, total_duration_seconds) <= 500
    THEN "almost none"
    ELSE IF stuttering_per_minute(stuttering_counts, total_duration_seconds) < 2000
    THEN "occasional"
    ELSE "frequent"

\* get_stuttering_feedback, lines 78-97
get_stuttering_feedback(stuttering_counts, total_duration_seconds) ==
    IF total_duration_seconds <= 0 THEN "too short to evaluate"
    ELSE IF total_duration_minutes(total_duration_seconds) < 100
    THEN "too short to evaluate per minute"
    ELSE IF stuttering_counts = 0 THEN "no stuttering"
    ELSE IF stuttering_per_minute(stuttering_counts, total_duration_seconds) < 500
    THEN "almost none"
    ELSE IF stuttering_per_minute(stuttering_counts, total_duration_seconds) < 2000
    THEN "occasional"
    ELSE "frequent"

\* A rate per minute where the code has a rate per second
stutter_rate_per_minute(count, duration_seconds) ==
    IF duration_seconds > 0
    THEN (count * 100000 * 600) \div duration_seconds
    ELSE 0

\* count / duration_seconds if duration_seconds > 0 else 0
stutter_rate_per_sec(count, duration_seconds) ==
    IF duration_seconds > 0
    THEN (count * 100000 * 10) \div duration_seconds
    ELSE 0

\* detect_stuttering, lines 52-65: the result for a count and a duration
stuttering_results(count, duration_seconds) ==
    [stutter_count |-> count,
     stutter_rate_per_sec |-> stutter_rate_per_sec(count, duration_seconds),
     stuttering_feedback |-> get_stuttering_feedback(count, duration_seconds)]

---------------------------------------------------------------------------
(* Aapp.py: the asynchronous server                                        *)

Statuses == {"PENDING", "IN_PROGRESS", "COMPLETED", "FAILED"}

\* What the libraries and the network can answer
DownloadOutcomes == {"ok", "RequestException", "Exception"}
ExtractOutcomes == {"ok", "ffmpeg.Error", "ffmpeg.Error, partial output", "Exception"}
AnalyzeOutcomes == {"ok", "Exception"}
StutterOutcomes == {"ok", "Exception"}
PostOutcomes == {"2xx", "non-2xx", "Exception"}

\* The async server runs in one of two environments.  In "Aapp" a client
\* sends a request once the job before it has ended, and the libraries and
\* the network answer in every way above.  In "Aapp, concurrent requests" a
\* client sends requests at any time, and the answers are the plain ones.
AsyncApps == {"Aapp", "Aapp, concurrent requests"}
concurrent == app = "Aapp, concurrent requests"
PlainOutcomes == {"ok", "RequestException", "ffmpeg.Error", "2xx"}
Answers(outcomes) == IF concurrent THEN outcomes \cap PlainOutcomes ELSE outcomes

\* The jobs one run accepts
JobLimit == IF concurrent THEN MaxThreads ELSE MaxJobs

\* The request bodies a client sends
RequestBodies ==
    IF concurrent
    THEN {data \in Bodies : /\ data.kind = "object"
                            /\ data.presentationId \in {"pres", "../pres"}
                            /\ truthy(data.s3Url)}
    ELSE Bodies

\* str(e) and traceback.format_exc() of an exception, by their lengths
Errors == {[err_len |-> 40, trace_len |-> 300], [err_len |-> 40, trace_len |-> 4100]}
NoError == [err_len |-> 0, trace_len |-> 0]

\* What analyze_audio_features and librosa return in a pipeline run
PipelineRms == {0, 100}
PipelineEnergy == {<<20, 5>>}

\* The exceptions and the RMS of a job of the async server
JobErrors == IF concurrent THEN {[err_len |-> 40, trace_len |-> 300]} ELSE Errors
JobRms == IF concurrent THEN {100} ELSE PipelineRms

NoResult == [volume |-> [feedback |-> "", decibels |-> 0],
             stutter |-> [stutter_count |-> -1]]
NoPayload == [status |-> "none"]

\* A thread in state pc whose locals are not set (yet, or any more); dl and
\* amain remember whether the download failed and whether amain was called,
\* extract and analyze what extract_audio_from_video and the analysis of
\* analyze_audio_features did for this job
Locals(pc, pid, dl, amain) ==
    [pc |-> pc, presentation_id |-> pid, dl |-> dl, amain |-> amain,
     extract |-> "none", analyze |-> "none",
     exc |-> "none", error |-> NoError,
     avg_rms |-> NoneValue, result |-> NoResult, payload |-> NoPayload,
     attempt |-> 0, delay |-> 0, res |-> "none", nposts |-> 0, sleeps |-> <<>>,
     ret |-> "none"]

video_path(j) == path_join(DlDir(j), "audio-analysis-uuid", j, "mp4")
audio_path(j) == path_join(AudioDir(j), worker[j].presentation_id, 0, "wav")

set_status(map, analysis_id, status) == [map EXCEPT ![analysis_id] = status]

get_status(map, analysis_id) == map[analysis_id]

\* uuid.uuid4(): an id no job has had
fresh_id == CHOOSE j \in JobIds :
                /\ analysis_status_map[j] = "NONE"
                /\ \A k \in JobIds : k < j => analysis_status_map[k] # "NONE"

respond(code, body) == [code |-> code, body |-> body]

\* analyze_video tests not all([presentation_id, s3_url]) on data.get's values
missing_fields(data) == ~(truthy(data.presentationId) /\ truthy(data.s3Url))

\* analyze_video: the handler of POST /analysis/audio, for request body data
analyze_video(data) ==
    /\ app \in AsyncApps
    /\ IF data.kind # "object"
       THEN \* data.get raises AttributeError: Flask answers 500
            /\ last_response' = respond(500, "Internal Server Error")
            /\ UNCHANGED <<analysis_status_map, worker>>
       ELSE IF missing_fields(data)
       THEN /\ last_response' = respond(400, "error")
            /\ UNCHANGED <<analysis_status_map, worker>>
       ELSE /\ \E j \in 1..JobLimit : analysis_status_map[j] = "NONE"
            /\ concurrent \/ \A j \in JobIds : worker[j].pc \in {"none", "done"}
            /\ analysis_status_map' = set_status(analysis_status_map, fresh_id, "PENDING")
            /\ worker' = [worker EXCEPT ![fresh_id] =
                              Locals("start", data.presentationId, "none", FALSE)]
            /\ last_response' = respond(200, "PENDING")
    /\ UNCHANGED <<app, files, sent, upload, now, call>>

\* A process_audio that starts without writing IN_PROGRESS
SetInProgress_no_write(j) ==
    /\ worker[j].pc = "start"
    /\ worker' = [worker EXCEPT ![j].pc = "download"]
    /\ UNCHANGED <<app, analysis_status_map, files, sent, last_response, upload, now, call>>

\* process_audio, line 110
SetInProgress(j) ==
    /\ worker[j].pc = "start"
    /\ analysis_status_map' = set_status(analysis_status_map, j, "IN_PROGRESS")
    /\ worker' = [worker EXCEPT ![j].pc = "download"]
    /\ UNCHANGED <<app, files, sent, last_response, upload, now, call>>

\* A download_video that reports success whatever happened
download_video_ignores_errors(outcome) == TRUE

\* download_video returns True, or False for any exception
download_video(outcome) == outcome = "ok"

\* process_audio, lines 112-116: the temporary directory and the download.
\* A transfer that fails before the output is opened leaves no file, one
\* that fails later leaves a partial file.
Download(j, outcome) ==
    /\ worker[j].pc = "download"
    /\ files' = IF outcome \in {"ok", "Exception"}
                THEN write(files, video_path(j), j)
                ELSE files
    /\ worker' = [worker EXCEPT
           ![j].pc = IF download_video(outcome) THEN "amain" ELSE "download failed",
           ![j].dl = IF outcome = "ok" THEN "ok" ELSE "failed"]
    /\ UNCHANGED <<app, analysis_status_map, sent, last_response, upload, now, call>>

fail_payload(j, message) ==
    [analysisId |-> j, videoId |-> worker[j].presentation_id,
     status |-> "FAILED", message |-> message]

\* A COMPLETED payload that carries its result under "message"
final_payload_as_message(j, result_data) ==
    [analysisId |-> j, videoId |-> worker[j].presentation_id,
     status |-> "COMPLETED", message |-> result_data]

final_payload(j, result_data) ==
    [analysisId |-> j, videoId |-> worker[j].presentation_id,
     status |-> "COMPLETED", result |-> result_data]

\* A process_audio that builds its payload and does not call notify_status
enter_notify_skip(w, payload) ==
    [w EXCEPT !.pc = "returned", !.payload = payload, !.ret = "False"]

\* notify_status is entered: delay = 1.0, attempt = 1
enter_notify(w, payload) ==
    [w EXCEPT !.pc = "post", !.payload = payload, !.attempt = 1, !.delay = 1]

\* process_audio, lines 117-124
DownloadFailed(j) ==
    /\ worker[j].pc = "download failed"
    /\ analysis_status_map' = set_status(analysis_status_map, j, "FAILED")
    /\ worker' = [worker EXCEPT ![j] =
           enter_notify(@, fail_payload(j, [text |-> "Download failed", len |-> 15]))]
    /\ UNCHANGED <<app, files, sent, last_response, upload, now, call>>

\* An exception leaves amain: its with block removes the audio directory,
\* and process_audio's except clause is next
raise_in_amain(j, error, extract, analyze) ==
    /\ files' = rmtree(files, AudioDir(j))
    /\ worker' = [worker EXCEPT ![j].pc = "except", ![j].exc = "propagated",
                                ![j].error = error, ![j].amain = TRUE,
                                ![j].extract = extract, ![j].analyze = analyze]

\* amain, lines 51-58: the audio directory and extract_audio_from_video,
\* which swallows ffmpeg.Error and lets every other exception pass
Extract(j, outcome) ==
    /\ worker[j].pc = "amain"
    /\ IF outcome = "Exception"
       THEN \E error \in JobErrors : raise_in_amain(j, error, outcome, "none")
       ELSE /\ files' = IF outcome = "ffmpeg.Error"
                        THEN files
                        ELSE write(files, audio_path(j), j)
            /\ worker' = [worker EXCEPT
                   ![j].pc = "analyze", ![j].amain = TRUE, ![j].extract = outcome,
                   ![j].exc = IF outcome = "ok" THEN @ ELSE "swallowed"]
    /\ UNCHANGED <<app, analysis_status_map, sent, last_response, upload, now, call>>

\* amain, line 63: analyze_audio_features raises FileNotFoundError when the
\* audio file does not exist, and whatever librosa or the ASR raises
Analyze(j, outcome) ==
    /\ worker[j].pc = "analyze"
    /\ IF ~exists(audio_path(j))
       THEN \E error \in JobErrors :
                raise_in_amain(j, error, worker[j].extract, "FileNotFoundError")
       ELSE IF outcome = "Exception"
       THEN \E error \in JobErrors : raise_in_amain(j, error, worker[j].extract, outcome)
       ELSE /\ \E rms \in JobRms :
                 worker' = [worker EXCEPT ![j].pc = "stutter", ![j].analyze = outcome,
                                          ![j].avg_rms = Num(rms)]
            /\ UNCHANGED files
    /\ UNCHANGED <<app, analysis_status_map, sent, last_response, upload, now, call>>

\* amain, lines 101-118
final_feedback_report(audio_feedback_results, stuttering_analysis_results) ==
    [volume |-> [feedback |-> audio_feedback_results.volume_feedback,
                 decibels |-> audio_feedback_results.avg_rms_db],
     stutter |-> [stutter_count |-> stuttering_analysis_results.stutter_count]]

\* detect_stuttering, lines 20-35 and 38-65: an exception of librosa.load is
\* swallowed and a result with count 0 returned
detect_stuttering_file(outcome, energy) ==
    IF outcome = "ok" THEN detect_stuttering(energy) ELSE [stutter_count |-> 0]

\* amain, lines 68-120: detect_stuttering, then the report; amain returns
\* and its with block ends
Stutter(j, outcome) ==
    /\ worker[j].pc = "stutter"
    /\ \E energy \in PipelineEnergy :
         LET stuttering == detect_stuttering_file(outcome, energy)
             avg_rms_db == amain_avg_rms_db(worker[j].avg_rms)
             feedback == generate_audio_feedback(PipelineFeatures(worker[j].avg_rms), avg_rms_db)
         IN  worker' = [worker EXCEPT
                 ![j].pc = "completed",
                 ![j].exc = IF outcome = "ok" THEN @ ELSE "swallowed",
                 ![j].result = final_feedback_report(feedback, stuttering)]
    /\ files' = rmtree(files, AudioDir(j))
    /\ UNCHANGED <<app, analysis_status_map, sent, last_response, upload, now, call>>

\* process_audio, lines 130-142: amain's result is a dict (amain returns
\* nothing else), so the ValueError of line 131 is never raised
Completed(j) ==
    /\ worker[j].pc = "completed"
    /\ analysis_status_map' = set_status(analysis_status_map, j, "COMPLETED")
    /\ worker' = [worker EXCEPT ![j] = enter_notify(@, final_payload(j, @.result))]
    /\ UNCHANGED <<app, files, sent, last_response, upload, now, call>>

\* The message without the [:4000]
error_message_whole(error) ==
    [text |-> "error and trace", len |-> error.err_len + 2 + error.trace_len]

\* f"{str(e)}\n\n{err_trace}"[:4000]
error_message(error) ==
    [text |-> "error and trace",
     len |-> Min(error.err_len + 2 + error.trace_len, message_limit)]

\* process_audio, lines 144-158
Except(j) ==
    /\ worker[j].pc = "except"
    /\ analysis_status_map' = set_status(analysis_status_map, j, "FAILED")
    /\ worker' = [worker EXCEPT ![j] =
           enter_notify(@, fail_payload(j, error_message(@.error)))]
    /\ UNCHANGED <<app, files, sent, last_response, upload, now, call>>

\* A notify_status that does not return on a 2xx response
post_result_retry_2xx(w, outcome) ==
    IF w.attempt < retries
    THEN [w EXCEPT !.res = outcome, !.nposts = @ + 1, !.pc = "sleep"]
    ELSE [w EXCEPT !.res = outcome, !.nposts = @ + 1, !.pc = "returned",
                   !.ret = IF outcome = "2xx" THEN "True" ELSE "False"]

\* A notify_status that lets the failure of its last attempt out as an
\* exception
post_result_raises(w, outcome) ==
    IF outcome = "2xx"
    THEN [w EXCEPT !.res = outcome, !.nposts = @ + 1, !.ret = "True", !.pc = "returned"]
    ELSE IF w.attempt < retries
    THEN [w EXCEPT !.res = outcome, !.nposts = @ + 1, !.pc = "sleep"]
    ELSE [w EXCEPT !.res = outcome, !.nposts = @ + 1, !.exc = "propagated",
                   !.pc = "except"]

\* notify_status, lines 38-45 and 48: one requests.post and what follows it
post_result(w, outcome) ==
    IF outcome = "2xx"
    THEN [w EXCEPT !.res = outcome, !.nposts = @ + 1, !.ret = "True", !.pc = "returned"]
    ELSE IF w.attempt < retries
    THEN [w EXCEPT !.res = outcome, !.nposts = @ + 1, !.pc = "sleep"]
    ELSE [w EXCEPT !.res = outcome, !.nposts = @ + 1, !.ret = "False", !.pc = "returned"]

Post(j, outcome) ==
    /\ worker[j].pc = "post"
    /\ sent' = sent \cup {[payload |-> worker[j].payload,
                           map_status |-> get_status(analysis_status_map, j)]}
    /\ worker' = [worker EXCEPT ![j] = post_result(@, outcome)]
    /\ UNCHANGED <<app, analysis_status_map, files, last_response, upload, now, call>>

\* notify_status, lines 46-47, and the next turn of the loop
sleep_and_retry(w) ==
    [w EXCEPT !.sleeps = Append(@, w.delay), !.delay = @ * 2,
              !.attempt = @ + 1, !.res = "none", !.pc = "post"]

Sleep(j) ==
    /\ worker[j].pc = "sleep"
    /\ worker' = [worker EXCEPT ![j] = sleep_and_retry(@)]
    /\ UNCHANGED <<app, analysis_status_map, files, sent, last_response, upload, now, call>>

\* process_audio returns after notify_status: its with block removes the
\* download directory, and the thread ends
Cleanup(j) ==
    /\ worker[j].pc = "returned"
    /\ files' = rmtree(files, DlDir(j))
    /\ worker' = [worker EXCEPT ![j] =
                      Locals("done", @.presentation_id, @.dl, @.amain)]
    /\ UNCHANGED <<app, analysis_status_map, sent, last_response, upload, now, call>>

process_audio(j) ==
    \/ SetInProgress(j)
    \/ \E outcome \in Answers(DownloadOutcomes) : Download(j, outcome)
    \/ DownloadFailed(j)
    \/ \E outcome \in Answers(ExtractOutcomes) : Extract(j, outcome)
    \/ \E outcome \in Answers(AnalyzeOutcomes) : Analyze(j, outcome)
    \/ \E outcome \in Answers(StutterOutcomes) : Stutter(j, outcome)
    \/ Completed(j)
    \/ Except(j)
    \/ \E outcome \in Answers(PostOutcomes) : Post(j, outcome)
    \/ Sleep(j)
    \/ Cleanup(j)

---------------------------------------------------------------------------
(* app.py and run_all.py: the synchronous upload servers                   *)

UploadApps == {"app", "run_all"}

\* request.files['video'].filename; None: the request has no 'video' part
Filenames == {None, "", "pres.mp4"}
SaveOutcomes == {"ok", "Exception"}
TextOutcomes == {"text", "None"}
Transcripts == {<<>>, <<" ">>, <<"w">>}

\* os.path.splitext(video_file.filename)
original_filename(filename) == IF filename = "pres.mp4" THEN "pres" ELSE filename
file_extension(filename) == IF filename = "pres.mp4" THEN "mp4" ELSE ""

NoUpload ==
    [pc |-> "none", filename |-> None, timestamp |-> 0, audio_ts |-> 0,
     exc |-> "none", avg_rms |-> NoneValue, transcript |-> <<>>,
     result |-> NoResult, api_calls |-> 0, content_summary |-> "none",
     response |-> respond(0, "none")]

upload_video_path(u) ==
    path_join(UPLOAD_FOLDER, original_filename(upload[u].filename),
              upload[u].timestamp, file_extension(upload[u].filename))

\* app.py names the audio after the request's timestamp; run_all.py after
\* the time process_video_for_feedback starts
upload_audio_path(u) ==
    path_join(TEMP_AUDIO_FOLDER, original_filename(upload[u].filename),
              upload[u].audio_ts, "wav")

\* analyze_video_api, app.py lines 47-61, run_all.py lines 120-130
Receive(u, filename) ==
    /\ app \in UploadApps
    /\ upload[u].pc = "none"
    /\ \A v \in UploadIds : v < u => upload[v].pc # "none"
    /\ upload' = [upload EXCEPT ![u] =
           IF filename \in {None, ""}
           THEN [@ EXCEPT !.pc = "done", !.filename = filename,
                          !.response = respond(400, "error")]
           ELSE [@ EXCEPT !.pc = "save", !.filename = filename,
                          !.timestamp = now, !.audio_ts = now]]
    /\ last_response' = upload'[u].response
    /\ UNCHANGED <<app, analysis_status_map, worker, files, sent, now, call>>

\* The except clause of analyze_video_api
respond_500(r) ==
    [r EXCEPT !.pc = "finally", !.exc = "propagated", !.response = respond(500, "error")]

\* The except clause of process_video_for_feedback: the error is returned
\* as a dict, which analyze_video_api sends with status 200
respond_error_dict(r) ==
    [r EXCEPT !.pc = "finally", !.exc = "propagated",
              !.response = respond(200, "error dict")]

\* video_file.save(video_path); a save that fails leaves a partial file
Save(u, outcome) ==
    /\ upload[u].pc = "save"
    /\ files' = write(files, upload_video_path(u), u)
    /\ upload' = [upload EXCEPT ![u] =
           IF outcome = "ok"
           THEN [@ EXCEPT !.pc = IF app = "run_all" THEN "process" ELSE "extract"]
           ELSE respond_500(@)]
    /\ UNCHANGED <<app, analysis_status_map, worker, sent, last_response, now, call>>

\* An exception in extraction or analysis: app.py answers 500; in run_all.py
\* process_video_for_feedback catches it, and its finally removes the audio
raise_in_upload(u) ==
    IF app = "app"
    THEN /\ upload' = [upload EXCEPT ![u] = respond_500(@)]
         /\ UNCHANGED files
    ELSE /\ upload' = [upload EXCEPT ![u] = respond_error_dict(@)]
         /\ files' = remove(files, upload_audio_path(u))

\* extract_audio_from_video
UploadExtract(u, outcome) ==
    /\ upload[u].pc = "extract"
    /\ IF outcome = "Exception"
       THEN raise_in_upload(u)
       ELSE /\ files' = IF outcome = "ffmpeg.Error"
                        THEN files
                        ELSE write(files, upload_audio_path(u), u)
            /\ upload' = [upload EXCEPT
                   ![u].pc = "analyze",
                   ![u].exc = IF outcome = "ok" THEN @ ELSE "swallowed"]
    /\ UNCHANGED <<app, analysis_status_map, worker, sent, last_response, now, call>>

\* run_all.py line 47: the audio is named when process_video_for_feedback starts
StartProcessing(u) ==
    /\ app = "run_all"
    /\ upload[u].pc = "process"
    /\ upload' = [upload EXCEPT ![u].pc = "extract", ![u].audio_ts = now]
    /\ UNCHANGED <<app, analysis_status_map, worker, files, sent, last_response, now, call>>

\* analyze_audio_features
UploadAnalyze(u, outcome) ==
    /\ upload[u].pc = "analyze"
    /\ IF ~exists(upload_audio_path(u)) \/ outcome = "Exception"
       THEN raise_in_upload(u)
       ELSE /\ \E rms \in PipelineRms, transcript \in Transcripts :
                 upload' = [upload EXCEPT ![u].pc = "stutter", ![u].avg_rms = Num(rms),
                               ![u].transcript = IF app = "run_all" THEN transcript ELSE <<>>]
            /\ UNCHANGED files
    /\ UNCHANGED <<app, analysis_status_map, worker, sent, last_response, now, call>>

\* The "results" of final_feedback, app.py lines 97-118, run_all.py 83-105
upload_results(avg_rms_db, audio_feedback_results, stuttering_analysis_results) ==
    [speed |-> [feedback |-> audio_feedback_results.speed_feedback,
                value |-> audio_feedback_results.speaking_rate_wpm],
     pitch |-> [feedback |-> audio_feedback_results.pitch_feedback,
                value |-> audio_feedback_results.avg_pitch_hz],
     volume |-> [feedback |-> audio_feedback_results.volume_feedback,
                 decibels |-> IF avg_rms_db.tag = "num" THEN avg_rms_db.v ELSE 0],
     stutter |-> [stutter_count |-> stuttering_analysis_results.stutter_count]]

\* detect_stuttering and the report; app.py then returns its response
UploadStutter(u, outcome) ==
    /\ upload[u].pc = "stutter"
    /\ \E energy \in PipelineEnergy :
         LET stuttering == detect_stuttering_file(outcome, energy)
             avg_rms_db == IF app = "app" THEN app_avg_rms_db(upload[u].avg_rms)
                           ELSE run_all_avg_rms_db(upload[u].avg_rms)
             feedback == generate_audio_feedback(PipelineFeatures(upload[u].avg_rms), avg_rms_db)
         IN  upload' = [upload EXCEPT
                 ![u].pc = IF app = "app" THEN "finally" ELSE "text",
                 ![u].exc = IF outcome = "ok" THEN @ ELSE "swallowed",
                 ![u].result = upload_results(avg_rms_db, feedback, stuttering),
                 ![u].response = IF app = "app" THEN respond(200, "result") ELSE @]
    /\ UNCHANGED <<app, analysis_status_map, worker, files, sent, last_response, now, call>>

\* A test that is true of every transcript
calls_api_always(transcript) == TRUE

\* if transcript.strip(): some character of the transcript is no whitespace
calls_api(transcript) == \E i \in 1..Len(transcript) : transcript[i] # " "

\* run_all.py lines 77-114: the text feedback, the report, and the finally
\* of process_video_for_feedback; analyze_video_api then returns its response.
\* outcome is what generate_feedback_no_question returns when it is called.
TextFeedback(u, outcome) ==
    /\ app = "run_all"
    /\ upload[u].pc = "text"
    /\ upload' = [upload EXCEPT
           ![u].pc = "finally",
           ![u].api_calls = IF calls_api(upload[u].transcript) THEN 1 ELSE 0,
           ![u].content_summary = IF calls_api(upload[u].transcript) THEN outcome
                                  ELSE "no transcript",
           ![u].response = respond(200, "result")]
    /\ files' = remove(files, upload_audio_path(u))
    /\ UNCHANGED <<app, analysis_status_map, worker, sent, last_response, now, call>>

\* The finally clause of analyze_video_api; the response is then sent
Finally(u) ==
    /\ upload[u].pc = "finally"
    /\ files' = IF app = "app"
                THEN remove(remove(files, upload_video_path(u)), upload_audio_path(u))
                ELSE remove(files, upload_video_path(u))
    /\ upload' = [upload EXCEPT ![u].pc = "done"]
    /\ last_response' = upload[u].response
    /\ UNCHANGED <<app, analysis_status_map, worker, sent, now, call>>

\* time.time() advances
Tick ==
    /\ app \in UploadApps
    /\ now < MaxTime
    /\ now' = now + 1
    /\ UNCHANGED <<app, analysis_status_map, worker, files, sent, last_response, upload, call>>

analyze_video_api(u) ==
    \/ \E filename \in Filenames : Receive(u, filename)
    \/ \E outcome \in SaveOutcomes : Save(u, outcome)
    \/ StartProcessing(u)
    \/ \E outcome \in ExtractOutcomes : UploadExtract(u, outcome)
    \/ \E outcome \in AnalyzeOutcomes : UploadAnalyze(u, outcome)
    \/ \E outcome \in StutterOutcomes : UploadStutter(u, outcome)
    \/ \E outcome \in TextOutcomes : TextFeedback(u, outcome)
    \/ Finally(u)

---------------------------------------------------------------------------
(* Direct calls of the pure helpers                                        *)

ConvertCopies == {"audiomain.convert_rms_to_db", "app.convert_rms_to_db",
                  "run_all.convert_rms_to_db", "main.convert_rms_to_db"}
VolumePipelines == {"audiomain.amain", "app.analyze_video_api",
                    "run_all.process_video_for_feedback", "main.main"}

\* features.get('avg_rms'): a number, or None when the key is absent
AvgRmsValues == {Num(r) : r \in RmsValues} \cup {NoneValue}

\* The volume "decibels" of the report a pipeline builds from avg_rms
volume_decibels(pipeline, avg_rms_value) ==
    CASE pipeline = "audiomain.amain" ->
           final_feedback_report(
               generate_audio_feedback(PipelineFeatures(avg_rms_value), amain_avg_rms_db(avg_rms_value)),
               [stutter_count |-> 0]).volume.decibels
      [] pipeline = "main.main" ->
           final_feedback_report(
               generate_audio_feedback(PipelineFeatures(avg_rms_value), main_avg_rms_db(avg_rms_value)),
               [stutter_count |-> 0]).volume.decibels
      [] pipeline = "app.analyze_video_api" ->
           upload_results(app_avg_rms_db(avg_rms_value),
               generate_audio_feedback(PipelineFeatures(avg_rms_value), app_avg_rms_db(avg_rms_value)),
               [stutter_count |-> 0]).volume.decibels
      [] OTHER ->
           upload_results(run_all_avg_rms_db(avg_rms_value),
               generate_audio_feedback(PipelineFeatures(avg_rms_value), run_all_avg_rms_db(avg_rms_value)),
               [stutter_count |-> 0]).volume.decibels

CallConvertRmsToDb ==
    /\ call.fn \in ConvertCopies
    /\ ~call.done
    /\ call' = [call EXCEPT !.done = TRUE, !.result =
           CASE call.fn = "audiomain.convert_rms_to_db" -> convert_rms_to_db(call.arg)
             [] call.fn = "app.convert_rms_to_db" -> app_convert_rms_to_db(call.arg)
             [] call.fn = "run_all.convert_rms_to_db" -> run_all_convert_rms_to_db(call.arg)
             [] OTHER -> main_convert_rms_to_db(call.arg)]
    /\ UNCHANGED <<app, analysis_status_map, worker, files, sent, last_response, upload, now>>

CallVolume ==
    /\ call.fn \in VolumePipelines
    /\ ~call.done
    /\ call' = [call EXCEPT !.done = TRUE,
                            !.result = Num(volume_decibels(call.fn, call.arg))]
    /\ UNCHANGED <<app, analysis_status_map, worker, files, sent, last_response, upload, now>>

CallDetectStuttering ==
    /\ call.fn = "detect_stuttering"
    /\ ~call.done
    /\ call' = [call EXCEPT !.done = TRUE, !.result = detect_stuttering(call.arg)]
    /\ UNCHANGED <<app, analysis_status_map, worker, files, sent, last_response, upload, now>>

CallGenerateAudioFeedback ==
    /\ call.fn = "generate_audio_feedback"
    /\ ~call.done
    /\ call' = [call EXCEPT !.done = TRUE,
           !.result = generate_audio_feedback(call.arg.features, call.arg.avg_rms_db)]
    /\ UNCHANGED <<app, analysis_status_map, worker, files, sent, last_response, upload, now>>

CallGetStutteringFeedback ==
    /\ call.fn = "get_stuttering_feedback"
    /\ ~call.done
    /\ call' = [call EXCEPT !.done = TRUE, !.result =
           [text |-> get_stuttering_feedback(call.arg.count, call.arg.duration)]]
    /\ UNCHANGED <<app, analysis_status_map, worker, files, sent, last_response, upload, now>>

\* detect_stuttering from line 52 on, for the count of its loop and the
\* duration of the audio it loaded
CallStutteringResults ==
    /\ call.fn = "detect_stuttering, results"
    /\ ~call.done
    /\ call' = [call EXCEPT !.done = TRUE, !.result =
           stuttering_results(call.arg.count, call.arg.duration)]
    /\ UNCHANGED <<app, analysis_status_map, worker, files, sent, last_response, upload, now>>

\* analyze_audio_features, then generate_audio_feedback on its features
CallSpeakingRate ==
    /\ call.fn = "analyze_audio_features"
    /\ ~call.done
    /\ LET rate == speaking_rate_wpm(call.arg.transcript, call.arg.asr_duration,
                                     call.arg.duration)
           feedback == generate_audio_feedback(
                           Features(Num(rate), Num(180000), Num(100)), NA)
       IN  call' = [call EXCEPT !.done = TRUE, !.result =
                       [speaking_rate_wpm |-> rate,
                        speed_feedback |-> feedback.speed_feedback]]
    /\ UNCHANGED <<app, analysis_status_map, worker, files, sent, last_response, upload, now>>

CallGenerateFeedbackNoQuestion ==
    /\ call.fn = "generate_feedback_no_question"
    /\ ~call.done
    /\ call' = [call EXCEPT !.done = TRUE,
                            !.result = generate_feedback_no_question(call.arg)]
    /\ UNCHANGED <<app, analysis_status_map, worker, files, sent, last_response, upload, now>>

NoCall == [fn |-> "none", arg |-> 0, done |-> TRUE, result |-> NoneValue]

\* The calls a test can make: a helper and its input
InitCall ==
    \/ \E fn \in ConvertCopies, r \in RmsValues :
         call = [fn |-> fn, arg |-> r, done |-> FALSE, result |-> NoneValue]
    \/ \E fn \in VolumePipelines, v \in AvgRmsValues :
         call = [fn |-> fn, arg |-> v, done |-> FALSE, result |-> NoneValue]
    \/ \E energy \in EnergySeqs :
         call = [fn |-> "detect_stuttering", arg |-> energy, done |-> FALSE,
                 result |-> NoneValue]
    \/ \E transcript \in Texts, asr_duration \in AsrDurations, duration \in FileDurations :
         call = [fn |-> "analyze_audio_features",
                 arg |-> [transcript |-> transcript, asr_duration |-> asr_duration,
                          duration |-> duration],
                 done |-> FALSE, result |-> NoneValue]
    \/ \E answers \in ApiAnswerSeqs :
         call = [fn |-> "generate_feedback_no_question", arg |-> answers,
                 done |-> FALSE, result |-> NoneValue]
    \/ \E fn \in {"get_stuttering_feedback", "detect_stuttering, results"},
          count \in StutterCounts, duration \in DurationValues :
         call = [fn |-> fn, arg |-> [count |-> count, duration |-> duration],
                 done |-> FALSE, result |-> NoneValue]
    \/ \E rate \in {Num(r) : r \in SpeedValues} \cup {NoneValue},
          pitch \in {Num(h) : h \in PitchValues} \cup {NoneValue},
          db \in DbValues :
         call = [fn |-> "generate_audio_feedback",
                 arg |-> [features |-> Features(rate, pitch, Num(100)), avg_rms_db |-> db],
                 done |-> FALSE, result |-> NoneValue]

---------------------------------------------------------------------------
(* The specification *)

Apps == AsyncApps \cup {"app", "run_all", "call"}

Init ==
    /\ app \in Apps
    /\ analysis_status_map = [j \in JobIds |-> "NONE"]
    /\ worker = [j \in JobIds |-> Locals("none", None, "none", FALSE)]
    /\ files = {}
    /\ sent = {}
    /\ last_response = respond(0, "none")
    /\ upload = [u \in UploadIds |-> NoUpload]
    /\ now = 0
    /\ IF app = "call" THEN InitCall ELSE call = NoCall

Next ==
    \/ \E data \in RequestBodies : analyze_video(data)
    \/ \E j \in JobIds : process_audio(j)
    \/ \E u \in UploadIds : analyze_video_api(u)
    \/ Tick
    \/ CallConvertRmsToDb
    \/ CallVolume
    \/ CallDetectStuttering
    \/ CallGenerateAudioFeedback
    \/ CallGetStutteringFeedback
    \/ CallStutteringResults
    \/ CallSpeakingRate
    \/ CallGenerateFeedbackNoQuestion

Spec == Init /\ [][Next]_vars

\* Every thread that can take a step eventually takes it: the operating
\* system schedules each worker, and every external call returns or raises
Fairness == \A j \in JobIds : WF_vars(process_audio(j))

FairSpec == Spec /\ Fairness

---------------------------------------------------------------------------
(* Properties *)

Terminal == {"COMPLETED", "FAILED"}
InNotify == {"post", "sleep", "returned"}

\* C1: notify_status issues at most 3 POSTs; it returns True right after the
\* first 2xx response and posts no more; a non-2xx response and an exception
\* are both a failed attempt; it sleeps 1s after failed attempt 1 and 2s
\* after failed attempt 2 and not after the last; after 3 failed attempts it
\* returns False.
C1_notify_status ==
    \A j \in JobIds :
      LET w == worker[j]
      IN  /\ w.nposts <= retries
          /\ w.res = "2xx" => w.pc = "returned" /\ w.ret = "True"
          /\ w.res \in {"non-2xx", "Exception"} =>
                \/ w.pc = "sleep" /\ w.attempt < retries
                \/ w.pc = "returned" /\ w.ret = "False" /\ w.nposts = retries
          /\ w.pc \in InNotify =>
                /\ w.sleeps \in {<<>>, <<1>>, <<1, 2>>}
                /\ w.nposts = IF w.pc = "post" THEN w.attempt - 1 ELSE w.attempt
                /\ Len(w.sleeps) = w.attempt - 1
          /\ w.pc = "returned" =>
                /\ w.ret = "True" <=> w.res = "2xx"
                /\ w.ret = "False" <=> w.res # "2xx" /\ w.nposts = retries

\* Three failed attempts, the second an exception, with sleeps of 1s and 2s
C1_three_failures ==
    \E j \in JobIds :
      /\ worker[j].pc = "returned"
      /\ worker[j].ret = "False"
      /\ worker[j].nposts = 3
      /\ worker[j].sleeps = <<1, 2>>

\* C2: when download_video reports failure the job's status is set to FAILED,
\* a FAILED callback with message "Download failed" is sent for the job, and
\* amain is never invoked for it.
C2_download_failure ==
    \A j \in JobIds :
      worker[j].dl = "failed" =>
        /\ ~worker[j].amain
        /\ worker[j].pc \notin {"amain", "analyze", "stutter", "completed", "except"}
        /\ worker[j].pc \in {"returned", "done"} =>
              /\ get_status(analysis_status_map, j) = "FAILED"
              /\ \E s \in sent :
                   /\ s.payload.analysisId = j
                   /\ s.payload.status = "FAILED"
                   /\ s.payload.message.text = "Download failed"
              /\ \A s \in sent :
                   s.payload.analysisId = j => s.payload.status = "FAILED"

\* A job whose download failed and whose process_audio has returned
C2_failed_download_returned ==
    \E j \in JobIds :
      /\ worker[j].dl = "failed"
      /\ worker[j].pc = "done"
      /\ get_status(analysis_status_map, j) = "FAILED"

\* C3, as stated: any exception raised during extraction or analysis after a
\* successful download leaves the job FAILED.
C3_any_exception_fails_job ==
    \A j \in JobIds :
      (worker[j].pc = "returned" /\ worker[j].dl = "ok" /\ worker[j].exc # "none")
        => get_status(analysis_status_map, j) = "FAILED"

\* C3, amended: any exception that propagates out of amain after a successful
\* download leaves the job FAILED and causes a FAILED callback whose message
\* is the error text and stack trace cut to 4000 characters; process_audio
\* returns normally.
C3_propagated_exception_fails_job ==
    \A j \in JobIds :
      LET w == worker[j]
          whole == w.error.err_len + 2 + w.error.trace_len
      IN  (w.exc = "propagated" /\ w.pc \in InNotify) =>
            /\ w.dl = "ok"
            /\ get_status(analysis_status_map, j) = "FAILED"
            /\ w.payload.status = "FAILED"
            /\ w.payload.message.text = "error and trace"
            /\ w.payload.message.len <= message_limit
            /\ w.payload.message.len = Min(whole, message_limit)
            /\ w.pc = "returned" =>
                  /\ w.ret \in {"True", "False"}
                  /\ [payload |-> w.payload, map_status |-> "FAILED"] \in sent

\* An exception with a long stack trace, its message cut to 4000 characters
C3_long_trace_truncated ==
    \E j \in JobIds :
      /\ worker[j].exc = "propagated"
      /\ worker[j].pc = "returned"
      /\ worker[j].error.trace_len > message_limit
      /\ worker[j].payload.message.len = message_limit

\* C4: after process_audio returns neither the job's video nor its audio
\* exists, and after the upload endpoint has produced its response neither
\* the saved upload nor the extracted WAV of the request exists.
C4_temporary_files_removed ==
    /\ \A j \in JobIds :
         worker[j].pc = "done" => ~\E f \in files : f.owner = j
    /\ \A u \in UploadIds :
         upload[u].pc = "done" => ~\E f \in files : f.owner = u

\* C5: a request whose body lacks presentationId or s3Url, or has no 'video'
\* part or an empty filename, is answered with 400 and changes nothing else.
C5_malformed_request_400 ==
    [][/\ \A data \in Bodies :
            (analyze_video(data) /\ (data.kind # "object" \/ missing_fields(data)))
              => /\ last_response'.code = 400
                 /\ UNCHANGED <<analysis_status_map, worker, files, sent>>
       /\ \A u \in UploadIds, filename \in {None, ""} :
            Receive(u, filename)
              => /\ last_response'.code = 400
                 /\ upload'[u].pc = "done"
                 /\ UNCHANGED <<files, sent>>]_vars

\* C6: every exception raised while saving, extracting or analysing the
\* upload gives a 500 response, never a 200.
C6_exception_gives_500 ==
    \A u \in UploadIds :
      (upload[u].pc \in {"finally", "done"} /\ upload[u].exc = "propagated")
        => upload[u].response.code = 500

\* C7: every job the endpoint answered PENDING eventually has status
\* COMPLETED or FAILED, and a callback POST for it is attempted once the
\* terminal status is in the map.
C7_job_terminates_and_notifies ==
    \A j \in JobIds :
      (get_status(analysis_status_map, j) = "PENDING")
        ~> (/\ get_status(analysis_status_map, j) \in Terminal
            /\ \E s \in sent : /\ s.payload.analysisId = j
                               /\ s.map_status \in Terminal)

\* A completed job whose callback was posted with COMPLETED in the map
C7_completed_and_notified ==
    \E j \in JobIds :
      /\ worker[j].pc = "done"
      /\ get_status(analysis_status_map, j) = "COMPLETED"
      /\ \E s \in sent : s.payload.analysisId = j /\ s.map_status = "COMPLETED"

\* C8: every callback payload has analysisId, videoId and a status COMPLETED
\* or FAILED; it has a result and no message exactly when COMPLETED, a
\* message and no result exactly when FAILED; its status is the job's status
\* in the map when the POST is issued; one job never gets both statuses.
C8_payload_shape ==
    /\ \A s \in sent :
         /\ {"analysisId", "videoId", "status"} \subseteq DOMAIN s.payload
         /\ s.payload.status \in Terminal
         /\ "result" \in DOMAIN s.payload <=> s.payload.status = "COMPLETED"
         /\ "message" \in DOMAIN s.payload <=> s.payload.status = "FAILED"
         /\ ~({"result", "message"} \subseteq DOMAIN s.payload)
         /\ s.map_status = s.payload.status
    /\ \A s, t \in sent :
         s.payload.analysisId = t.payload.analysisId
           => s.payload.status = t.payload.status

\* A COMPLETED payload has been posted
C8_completed_payload_sent ==
    \E s \in sent : s.payload.status = "COMPLETED" /\ "result" \in DOMAIN s.payload

\* C9: for every RMS value <= 0 each copy of convert_rms_to_db returns -120.0
\* and no domain error, and a report a pipeline builds from avg_rms <= 0 has
\* volume decibels -120.0.
C9_nonpositive_rms_floor ==
    /\ (call.done /\ call.fn \in ConvertCopies) =>
          (call.arg <= 0 => call.result = Num(floor_db))
    /\ (call.done /\ call.fn \in VolumePipelines) =>
          ((call.arg.tag = "num" /\ call.arg.v <= 0) => call.result = Num(floor_db))
    /\ \A j \in JobIds :
         (worker[j].pc = "completed" /\ worker[j].avg_rms.v <= 0)
           => worker[j].result.volume.decibels = floor_db
    /\ \A u \in UploadIds :
         (upload[u].pc \in {"text", "finally", "done"} /\ upload[u].response.code = 200
            /\ upload[u].exc # "propagated" /\ upload[u].avg_rms.v <= 0)
           => upload[u].result.volume.decibels = floor_db

\* convert_rms_to_db has been called with 0
C9_converted_zero ==
    call.done /\ call.fn \in ConvertCopies /\ call.arg = 0

\* The number of maximal runs of stutter frames in an energy sequence
Runs(energy) ==
    Cardinality({i \in 1..Len(energy) :
                    /\ energy[i] < threshold
                    /\ (i = 1 \/ ~(energy[i - 1] < threshold))})

\* The number of rising edges: indices i >= 1 (counted from 0) with s[i] and
\* not s[i-1]
RisingEdges(energy) ==
    Cardinality({i \in 2..Len(energy) :
                    energy[i] < threshold /\ ~(energy[i - 1] < threshold)})

CalledRate ==
    IF call.arg.features.speaking_rate_wpm.tag = "num"
    THEN call.arg.features.speaking_rate_wpm.v ELSE 0

\* The pitch generate_audio_feedback was called with
CalledPitch ==
    IF call.arg.features.avg_pitch_hz.tag = "num"
    THEN call.arg.features.avg_pitch_hz.v ELSE 0

\* C11: the speed feedback depends on speaking_rate_wpm alone: below 110 wpm
\* the "slow" text, above 160 wpm the "fast" text, and from 110 to 160 wpm,
\* both included, the "adequate" text.
C11_speed_bands ==
    (call.done /\ call.fn = "generate_audio_feedback") =>
       /\ CalledRate < 110000 => call.result.speed_feedback = "slow"
       /\ CalledRate > 160000 => call.result.speed_feedback = "fast"
       /\ (CalledRate >= 110000 /\ CalledRate <= 160000)
             => call.result.speed_feedback = "adequate"
       /\ call.result.speaking_rate_wpm = CalledRate

\* A rate of exactly 110 wpm got the "adequate" text
C11_rate_110_adequate ==
    /\ call.done
    /\ call.fn = "generate_audio_feedback"
    /\ CalledRate = 110000
    /\ call.result.speed_feedback = "adequate"

\* C12, as stated: every pitch below 100 Hz gives the "low voice" text, every
\* pitch above 250 Hz the "high voice" text, every other pitch the "stable
\* tone" text.
C12_three_pitch_bands ==
    (call.done /\ call.fn = "generate_audio_feedback") =>
       /\ CalledPitch < 100000 => call.result.pitch_feedback = "low voice"
       /\ CalledPitch > 250000 => call.result.pitch_feedback = "high voice"
       /\ (CalledPitch >= 100000 /\ CalledPitch <= 250000)
             => call.result.pitch_feedback = "stable tone"

\* C12, amended: a pitch of exactly 0 gives the "pitch analysis unavailable"
\* text; every other pitch below 100 Hz gives the "low voice" text, every
\* pitch above 250 Hz the "high voice" text, and from 100 to 250 Hz, both
\* included, the "stable tone" text.
C12_pitch_bands_and_zero ==
    (call.done /\ call.fn = "generate_audio_feedback") =>
       /\ CalledPitch = 0 => call.result.pitch_feedback = "pitch analysis unavailable"
       /\ (CalledPitch < 100000 /\ CalledPitch # 0)
             => call.result.pitch_feedback = "low voice"
       /\ CalledPitch > 250000 => call.result.pitch_feedback = "high voice"
       /\ (CalledPitch >= 100000 /\ CalledPitch <= 250000)
             => call.result.pitch_feedback = "stable tone"

\* A pitch of 0 Hz got the "pitch analysis unavailable" text
C12_pitch_zero_unavailable ==
    /\ call.done
    /\ call.fn = "generate_audio_feedback"
    /\ call.arg.features.avg_pitch_hz = Num(0)
    /\ call.result.pitch_feedback = "pitch analysis unavailable"

\* C13: below -20 dB the "too quiet" text, above -10 dB the "loud" text, and
\* from -20 to -10 dB, both included, the "adequate" text; for a dB value that
\* is not a number the "unavailable" text, and the report's decibels are 0.0.
C13_volume_bands ==
    (call.done /\ call.fn = "generate_audio_feedback") =>
       LET db == call.arg.avg_rms_db
           report == final_feedback_report(call.result, [stutter_count |-> 0])
       IN  /\ db.tag = "num" =>
                 /\ db.v < -2000 => call.result.volume_feedback = "too quiet"
                 /\ db.v > -1000 => call.result.volume_feedback = "loud"
                 /\ (db.v >= -2000 /\ db.v <= -1000)
                       => call.result.volume_feedback = "adequate"
                 /\ report.volume.decibels = db.v
           /\ db.tag # "num" =>
                 /\ call.result.volume_feedback = "unavailable"
                 /\ report.volume.feedback = "unavailable"
                 /\ report.volume.decibels = 0

\* A dB value of 'N/A' was reported as 0.0
C13_not_numeric_reported_zero ==
    /\ call.done
    /\ call.fn = "generate_audio_feedback"
    /\ call.arg.avg_rms_db = NA
    /\ call.result.avg_rms_db = 0

\* The band of a count over a duration of at least 6 seconds, by the rate
\* count / (duration / 60): rate < 0.5 iff count * 1200 < tenths of a second
Band(count, duration) ==
    IF count = 0 THEN "no stuttering"
    ELSE IF count * 1200 < duration THEN "almost none"
    ELSE IF count * 300 < duration THEN "occasional"
    ELSE "frequent"

\* C14: for an audio of at least 6 seconds get_stuttering_feedback gives "no
\* stuttering" for count 0, else "almost none" below 0.5 per minute,
\* "occasional" below 2 per minute and "frequent" from 2 per minute on; under
\* 6 seconds, or for a duration <= 0, it gives a "too short" text.
C14_stutter_bands ==
    (call.done /\ call.fn = "get_stuttering_feedback") =>
       /\ call.arg.duration >= 60 =>
             call.result.text = Band(call.arg.count, call.arg.duration)
       /\ call.arg.duration < 60 =>
             call.result.text \in {"too short to evaluate",
                                   "too short to evaluate per minute"}

\* One stutter in exactly two minutes: 0.5 per minute is "occasional"
C14_half_per_minute_occasional ==
    /\ call.done
    /\ call.fn = "get_stuttering_feedback"
    /\ call.arg = [count |-> 1, duration |-> 1200]
    /\ call.result.text = "occasional"

\* C16, as stated: the rate in detect_stuttering's result is the count
\* divided by the duration in minutes, the rate get_stuttering_feedback
\* uses; for duration 0 it is 0.
C16_rate_per_minute ==
    (call.done /\ call.fn = "detect_stuttering, results") =>
       call.result.stutter_rate_per_sec =
          IF call.arg.duration > 0
          THEN (call.arg.count * 600 * 100000) \div call.arg.duration
          ELSE 0

\* C16, amended: the rate in detect_stuttering's result is the count divided
\* by the duration in seconds; get_stuttering_feedback picks its band from
\* its own rate per minute, 60 times as large; for duration 0 the rate is 0.
C16_rate_per_second ==
    (call.done /\ call.fn = "detect_stuttering, results") =>
       /\ call.result.stutter_count = call.arg.count
       /\ call.arg.duration > 0 =>
             call.result.stutter_rate_per_sec =
                (call.arg.count * 10 * 100000) \div call.arg.duration
       /\ call.arg.duration <= 0 => call.result.stutter_rate_per_sec = 0
       /\ call.arg.duration >= 60 =>
             call.result.stuttering_feedback = Band(call.arg.count, call.arg.duration)

\* Two stutters in one minute: 1/30 per second, reported with "frequent"
C16_two_in_a_minute ==
    /\ call.done
    /\ call.fn = "detect_stuttering, results"
    /\ call.arg = [count |-> 2, duration |-> 600]
    /\ call.result.stutter_rate_per_sec = 3333
    /\ call.result.stuttering_feedback = "frequent"

\* The words of a text: the positions where a word starts
WordStarts(text) ==
    {i \in 1..Len(text) : text[i] # " " /\ (i = 1 \/ text[i - 1] = " ")}

\* C15: the speaking rate analyze_audio_features reports is the number of
\* whitespace-separated words divided by the effective duration, times 60;
\* the effective duration is the ASR's when that is > 0 and the file's
\* otherwise; for an effective duration <= 0 the rate is 0.0; 150 words in 60
\* effective seconds are 150 wpm and get the "adequate" speed feedback.
C15_speaking_rate ==
    (call.done /\ call.fn = "analyze_audio_features") =>
       LET effective == IF call.arg.asr_duration > 0 THEN call.arg.asr_duration
                        ELSE call.arg.duration
           words == Cardinality(WordStarts(call.arg.transcript))
       IN  /\ effective <= 0 => call.result.speaking_rate_wpm = 0
           /\ effective > 0 =>
                 call.result.speaking_rate_wpm = (words * 600 * 1000) \div effective
           /\ (words = 150 /\ effective = 600) =>
                 /\ call.result.speaking_rate_wpm = 150000
                 /\ call.result.speed_feedback = "adequate"

\* 150 words, an ASR duration of 60 s and a file of 120 s: 150 wpm, adequate
C15_150_words_in_60_seconds ==
    /\ call.done
    /\ call.fn = "analyze_audio_features"
    /\ call.arg = [transcript |-> Words(150), asr_duration |-> 600, duration |-> 1200]
    /\ call.result = [speaking_rate_wpm |-> 150000, speed_feedback |-> "adequate"]

\* The number of quota errors before the first other answer
QuotaErrors(answers) ==
    Cardinality({i \in 1..Len(answers) :
                    \A k \in 1..i : answers[k] = "ResourceExhausted"})

\* C17: generate_feedback_no_question makes at most 5 calls; only a
\* ResourceExhausted error is retried, with waits of 1, 2, 4, 8 and 16
\* seconds after the successive failed attempts; the first successful call
\* returns its text and no call follows; any other error returns None at once;
\* after the 5th quota error it returns None.
C17_bounded_retry ==
    (call.done /\ call.fn = "generate_feedback_no_question") =>
       LET k == QuotaErrors(call.arg)
           r == call.result
       IN  /\ r.calls <= 5
           /\ r.calls = IF k = 5 THEN 5 ELSE k + 1
           /\ r.waits = SubSeq(<<1, 2, 4, 8, 16>>, 1, k)
           /\ r.ret \in {"text", None}
           /\ r.ret = "text" <=> (k < 5 /\ call.arg[k + 1] = "text")
           /\ k = 5 => r.ret = None

\* Two quota errors, then a text: three calls, waits of 1 s and 2 s
C17_third_call_succeeds ==
    /\ call.done
    /\ call.fn = "generate_feedback_no_question"
    /\ call.arg[1] = "ResourceExhausted"
    /\ call.arg[2] = "ResourceExhausted"
    /\ call.arg[3] = "text"
    /\ call.result = [ret |-> "text", calls |-> 3, waits |-> <<1, 2>>]

\* The report process_video_for_feedback builds from the features of a request
ExpectedReport(u) ==
    upload_results(run_all_avg_rms_db(upload[u].avg_rms),
                   generate_audio_feedback(PipelineFeatures(upload[u].avg_rms),
                                           run_all_avg_rms_db(upload[u].avg_rms)),
                   upload[u].result.stutter)

\* C18: process_video_for_feedback calls the generative API exactly when the
\* transcript is not blank; when the call returns None the report is produced
\* all the same, its speed, pitch, volume and stutter sections as they are
\* without the failure, content_summary holds no text, and the response is
\* no error result.  (content_summary is "none" until the text feedback step.)
C18_text_feedback_optional ==
    \A u \in UploadIds :
      (app = "run_all" /\ upload[u].pc \in {"finally", "done"}
         /\ upload[u].content_summary # "none") =>
        /\ upload[u].api_calls = 1 <=>
              (\E i \in 1..Len(upload[u].transcript) : upload[u].transcript[i] # " ")
        /\ upload[u].api_calls \in {0, 1}
        /\ upload[u].api_calls = 0 => upload[u].content_summary = "no transcript"
        /\ upload[u].result = ExpectedReport(u)
        /\ upload[u].response = respond(200, "result")
        /\ (upload[u].api_calls = 1 /\ upload[u].content_summary # "text")
              => upload[u].content_summary = None

\* A request whose API call returned None and which was answered with a report
C18_api_failed_report_sent ==
    \E u \in UploadIds :
      /\ app = "run_all"
      /\ upload[u].pc = "done"
      /\ upload[u].api_calls = 1
      /\ upload[u].content_summary = None
      /\ upload[u].response = respond(200, "result")

\* The status changes the lifecycle allows; "NONE" stands for no entry
Lifecycle ==
    {<<"NONE", "PENDING">>, <<"PENDING", "IN_PROGRESS">>,
     <<"IN_PROGRESS", "COMPLETED">>, <<"IN_PROGRESS", "FAILED">>}

\* C19: every entry of the status map is PENDING, IN_PROGRESS, COMPLETED or
\* FAILED; an entry changes only from PENDING to IN_PROGRESS and from
\* IN_PROGRESS to COMPLETED or FAILED; a job's thread exists only once its
\* entry is written; a COMPLETED or FAILED entry never changes and no entry is
\* removed.
C19_status_lifecycle ==
    /\ [](\A j \in JobIds :
            /\ analysis_status_map[j] \in Statuses \cup {"NONE"}
            /\ worker[j].pc # "none" => analysis_status_map[j] # "NONE"
            /\ worker[j].pc = "start" => analysis_status_map[j] = "PENDING"
            /\ worker[j].pc \in {"returned", "done"} => analysis_status_map[j] \in Terminal)
    /\ [][\A j \in JobIds :
            analysis_status_map'[j] # analysis_status_map[j]
              => <<analysis_status_map[j], analysis_status_map'[j]>> \in Lifecycle]_vars

\* A COMPLETED job whose three callback attempts all failed
C19_completed_callback_failed ==
    \E j \in JobIds :
      /\ analysis_status_map[j] = "COMPLETED"
      /\ worker[j].pc = "returned"
      /\ worker[j].ret = "False"

\* The status a job's own download, extraction and analysis determine:
\* download_video failing returns early with FAILED, an extraction that left
\* no audio file or raised and an analysis that raised end in FAILED, and
\* everything else in COMPLETED
OwnStatus(w) ==
    IF w.dl # "ok" \/ w.extract # "ok" \/ w.analyze # "ok"
    THEN "FAILED"
    ELSE "COMPLETED"

\* C20: with the workers of several jobs interleaved in any order, each
\* step of a worker writes no status entry but the one of its own job id,
\* and the final status and the callback payload of a job are the ones its
\* own download and analysis outcomes determine, whatever the other jobs did.
\* (A call of set_status or get_status is one step of the model, which is what
\* holding status_lock around every access of the map gives.)
C20_job_isolation ==
    /\ [](concurrent =>
            \A j \in JobIds : worker[j].pc \in InNotify =>
                /\ analysis_status_map[j] = OwnStatus(worker[j])
                /\ worker[j].payload.status = OwnStatus(worker[j]))
    /\ [][\A j \in JobIds : process_audio(j) =>
              \A k \in JobIds \ {j} : analysis_status_map'[k] = analysis_status_map[k]]_vars

\* C20, the part that does not depend on the audio path: each step of a worker
\* leaves the status entries of the other jobs as they were
C20_own_entry_only ==
    [][\A j \in JobIds : process_audio(j) =>
           \A k \in JobIds \ {j} : analysis_status_map'[k] = analysis_status_map[k]]_vars

\* C20, with presentation ids that stay inside the job's audio directory, the
\* status and the payload of every job are the ones its own outcomes determine
C20_isolated_inside_audio_dir ==
    (concurrent /\ \A j \in JobIds : worker[j].presentation_id # "../pres") =>
        \A j \in JobIds : worker[j].pc \in InNotify =>
            /\ analysis_status_map[j] = OwnStatus(worker[j])
            /\ worker[j].payload.status = OwnStatus(worker[j])

\* C20: two jobs have run at the same time, one failed and one completed
C20_one_failed_one_completed ==
    /\ concurrent
    /\ \E j, k \in JobIds :
          /\ worker[j].pc \in InNotify /\ worker[k].pc \in InNotify
          /\ analysis_status_map[j] = "FAILED"
          /\ analysis_status_map[k] = "COMPLETED"

\* A job or an upload request that is being processed
JobInFlight(j) == worker[j].pc \notin {"none", "done"}
UploadInFlight(u) == upload[u].pc \notin {"none", "done"}

\* C21: of any two requests processed at the same time, the temporary video
\* path and the temporary audio path of one differ from those of the other:
\* for two jobs of the async server, and for two uploads of an upload server.
C21_temporary_paths_distinct ==
    /\ \A j, k \in JobIds :
          (j # k /\ JobInFlight(j) /\ JobInFlight(k)) =>
              /\ video_path(j) # video_path(k)
              /\ audio_path(j) # audio_path(k)
    /\ \A u, v \in UploadIds :
          (u # v /\ UploadInFlight(u) /\ UploadInFlight(v)) =>
              /\ upload_video_path(u) # upload_video_path(v)
              /\ upload_audio_path(u) # upload_audio_path(v)

\* C21, the video paths of the async server alone: the download directory
\* and the analysis id in the file name are the job's own
C21_video_paths_distinct ==
    \A j, k \in JobIds :
        (j # k /\ JobInFlight(j) /\ JobInFlight(k)) => video_path(j) # video_path(k)

\* C21, the consequence: a job reads the audio file that another job wrote
C21_reads_another_jobs_audio ==
    \E j \in JobIds :
        /\ worker[j].pc = "analyze"
        /\ \E f \in files : f.path = audio_path(j) /\ f.owner # j

\* The steps of process_audio in the order of the code: a pair <<p, q>> is a
\* step from position p to position q.  download is the fetch, amain the
\* extraction, analyze the analysis, stutter the stutter detection and the
\* report, post and sleep the callback notification, returned its end, and
\* the step to done leaves the with block of the download directory.
PipelineOrder ==
    {<<"start", "download">>, <<"download", "amain">>,
     <<"download", "download failed">>, <<"download failed", "post">>,
     <<"amain", "analyze">>, <<"amain", "except">>,
     <<"analyze", "stutter">>, <<"analyze", "except">>,
     <<"stutter", "completed">>, <<"completed", "post">>, <<"except", "post">>,
     <<"post", "sleep">>, <<"sleep", "post">>, <<"post", "returned">>,
     <<"returned", "done">>}

\* Some file of directory dir exists before the step and not after it
DeletedIn(dir) ==
    \E f \in files : f.path.dir = dir /\ \A g \in files' : g.path # f.path

\* The positions of a job after amain has returned or raised
AfterAmain == {"completed", "except"} \cup InNotify \cup {"done"}

\* C22, as stated: every step of a job follows the order fetch, extract,
\* analyse, report, notify, delete, and no file of the job's download
\* directory or of its audio directory is deleted before the notification of
\* the job has finished.
C22_nothing_deleted_before_notified ==
    [][\A j \in JobIds :
          /\ worker'[j].pc # worker[j].pc =>
                 \/ <<worker[j].pc, worker'[j].pc>> \in PipelineOrder
                 \/ worker[j].pc = "none" /\ worker'[j].pc = "start"
          /\ (DeletedIn(DlDir(j)) \/ DeletedIn(AudioDir(j))) =>
                 worker[j].pc = "returned"]_vars

\* C22, amended: every step of a job follows the order fetch, extract,
\* analyse, report, notify, delete; the download directory with the video is
\* deleted only once the notification of the job has finished; the audio
\* directory of amain is deleted when amain returns or raises, so that it is
\* empty from then on, the notification included.
C22_video_kept_until_notified ==
    /\ [](\A j \in JobIds : worker[j].pc \in AfterAmain =>
              \A f \in files : f.path.dir # AudioDir(j))
    /\ [][\A j \in JobIds :
             /\ worker'[j].pc # worker[j].pc =>
                    \/ <<worker[j].pc, worker'[j].pc>> \in PipelineOrder
                    \/ worker[j].pc = "none" /\ worker'[j].pc = "start"
             /\ DeletedIn(DlDir(j)) => worker[j].pc = "returned"
             /\ DeletedIn(AudioDir(j)) =>
                    /\ worker[j].pc \in {"amain", "analyze", "stutter"}
                    /\ worker'[j].pc \in {"completed", "except"}]_vars

\* C22: the notification of a job whose audio was extracted has finished; the
\* downloaded video is still there and the audio directory is empty
C22_notified_video_there_audio_gone ==
    \E j \in JobIds :
        /\ worker[j].pc = "returned"
        /\ worker[j].extract = "ok"
        /\ worker[j].presentation_id = "pres"
        /\ analysis_status_map[j] = "COMPLETED"
        /\ exists(video_path(j))
        /\ \A f \in files : f.path.dir # AudioDir(j)

\* Every callback attempt of the job has failed: notify_status has made its
\* last requests.post and the answer was no 2xx response
AllAttemptsFailed(w) == w.nposts = retries /\ w.res \in {"non-2xx", "Exception"}

\* C23: when every callback attempt of a job has failed, notify_status has
\* returned False without raising and the job's status entry is the one
\* written before the notification, the status of its payload; a step of the
\* notification of a job changes no entry of the status map; and once
\* notify_status has returned, the job makes no step but leaving the with
\* block, so no further attempt is made and its entry stays as it is.
C23_delivery_failure_silent ==
    /\ [](\A j \in JobIds : AllAttemptsFailed(worker[j]) =>
              /\ worker[j].pc = "returned"
              /\ worker[j].ret = "False"
              /\ analysis_status_map[j] = worker[j].payload.status
              /\ analysis_status_map[j] \in Terminal)
    /\ [][\A j \in JobIds :
             /\ (worker[j].pc \in InNotify /\ worker'[j] # worker[j]) =>
                    analysis_status_map' = analysis_status_map
             /\ worker[j].pc = "returned" =>
                    /\ worker'[j].pc \in {"returned", "done"}
                    /\ worker'[j].pc = "returned" => worker'[j] = worker[j]
             /\ worker[j].pc = "done" =>
                    /\ worker'[j] = worker[j]
                    /\ analysis_status_map'[j] = analysis_status_map[j]
                    /\ {s \in sent' : s.payload.analysisId = j}
                           = {s \in sent : s.payload.analysisId = j}]_vars

\* C23: the analysis of a job failed and the three attempts to deliver its
\* FAILED callback failed too, after sleeps of 1 and 2 seconds
C23_failed_job_undelivered ==
    \E j \in JobIds :
        /\ AllAttemptsFailed(worker[j])
        /\ worker[j].ret = "False"
        /\ worker[j].sleeps = <<1, 2>>
        /\ worker[j].dl = "ok"
        /\ analysis_status_map[j] = "FAILED"

=============================================================================
